---- MODULE Spec2Model ----
(***************************************************************************)
(* Order lifecycle of the RecycleTrade backend: checkout (card / pickup),  *)
(* the Stripe payment-confirmation webhook, the fulfillment transitions,   *)
(* the administrative purge of processed orders and the abandoned-order    *)
(* sweeper, together with the variant stock, the carts and the             *)
(* notifications they touch.                                               *)
(*                                                                         *)
(* Every request handler is one action (requests are taken one at a time). *)
(* The sweeper is a find followed by one step per candidate, so requests   *)
(* arrive between its candidates and each candidate is the document that   *)
(* the find returned. For concurrent requests the stock loops are also     *)
(* given await by await (inflight), and the handlers that can fail take    *)
(* the set of awaited calls that throw.                                    *)
(***************************************************************************)
EXTENDS Integers, Sequences, FiniteSets, TLC

\* ---------------------------------------------------------------- bounds
MaxOrders == 1
MaxQty == 2
MaxStock == 2
MaxDeliveries == 2
MaxIds == 2
MaxRestocks == 2
MaxSweeps == 2

\* The ids an order can have. MaxOrders caps the orders one behaviour of the
\* lifecycle specifications creates; the sweep and concurrency specifications
\* fill the whole id space.
OrderIds == 1..MaxIds

\* ------------------------------------------------------------ vocabulary
None == "none"

\* Product catalogue: p1 is sold in two variants, p2 is a legacy product
\* without variants, "gone" is the id of a product that was deleted.
ProductIds == {"p1", "p2"}

\* Users: id -> role, verified flag and contact email (models/User.js). The
\* role enum is buyer, seller, seller_candidate, admin; s3 is a seller
\* candidate who registered and was not verified yet.
Users ==
  [u \in {"u1", "s1", "s2", "s3", "a1"} |->
     CASE u = "u1" -> [role |-> "buyer", verified |-> TRUE, email |-> TRUE]
       [] u = "s1" -> [role |-> "seller", verified |-> TRUE, email |-> TRUE]
       [] u = "s2" -> [role |-> "seller_candidate", verified |-> TRUE, email |-> TRUE]
       [] u = "s3" -> [role |-> "seller_candidate", verified |-> FALSE, email |-> TRUE]
       [] u = "a1" -> [role |-> "admin", verified |-> TRUE, email |-> TRUE]]

\* Who may appear in the Authorization header of a request.
Callers == DOMAIN Users \cup {None}

NoOrder == [exists |-> FALSE]

\* session.metadata.orderId || session.client_reference_id: an order id, 0
\* when the session carries neither, -1 when it is not a well-formed ObjectId.
EventOrderIds == (-1)..MaxIds

\* What can go wrong in the infrastructure during one request: a save of
\* the order, a save of a product, the cart delete, the mail transport, the
\* Stripe API.
Faults == {"orderSave", "productSave", "cartDelete", "email"}
EventTypes == {"checkout.session.completed", "payment_intent.succeeded"}

VARIABLES
  orders,     \* the Order collection: id -> document or NoOrder
  products,   \* the Product collection: id -> [sellerId, variants]
  carts,      \* the Cart collection: the users that have a cart document
  sessions,   \* Stripe's side: order id -> "none" | "open" | "paid"
  delivered,  \* verified checkout.session.completed events handled, per order
  queue,      \* the sweeper's abandonedOrders still to be handled
  sent,       \* notifications handed to the mail transport: <<kind, order>>
  decs,       \* history: how often an order's items were decremented
  restocks,   \* history: how often an order's items were restocked
  resp,       \* the last handler that ran and the HTTP status it answered
  inflight,   \* stock loops between a Product.findById and its product.save()
  purged      \* the ids of the orders that were deleted from the collection

vars == <<orders, products, carts, sessions, delivered, queue, sent, decs, restocks, resp,
          inflight, purged>>

Max(a, b) == IF a >= b THEN a ELSE b

\* ---------------------------------------------------------------- models
\* variantSchema: an _id and a stock counter.
Variant(id, stock) == [id |-> id, stock |-> stock]

\* Array.prototype.find on product.variants by _id: its index, 0 if absent.
FindVariant(variants, variantId) ==
  IF \E i \in 1..Len(variants) : variants[i].id = variantId
    THEN CHOOSE i \in 1..Len(variants) :
           /\ variants[i].id = variantId
           /\ \A j \in 1..(i - 1) : variants[j].id # variantId
    ELSE 0

\* ------------------------------------------------------ inventory ledger
newStock(currentStock, quantity) == Max(0, currentStock - quantity)

\* One iteration of the loop of decreaseOrderStock.
decreaseItem(prods, item) ==
  IF item.productId \notin DOMAIN prods THEN prods
  ELSE LET variants == prods[item.productId].variants
           i == FindVariant(variants, item.variantId)
       IN IF Len(variants) > 0 /\ item.variantId # None /\ i # 0
            THEN [prods EXCEPT ![item.productId].variants[i].stock =
                                  newStock(@, item.quantity)]
            ELSE prods

RECURSIVE decreaseFrom(_, _, _)
decreaseFrom(prods, items, k) ==
  IF k > Len(items) THEN prods
  ELSE decreaseFrom(decreaseItem(prods, items[k]), items, k + 1)

\* decreaseOrderStock that leaves the stock as it is.
decreaseOrderStock_Skipped(prods, order) == prods

decreaseOrderStock(prods, order) == decreaseFrom(prods, order.items, 1)

\* webhookNewStock without the floor at zero.
webhookNewStock_NoFloor(currentStock, quantity) == currentStock - quantity

\* The same loop, as written a second time in the webhook.
webhookNewStock(currentStock, quantity) == Max(0, currentStock - quantity)

webhookDecreaseItem(prods, item) ==
  IF item.productId \notin DOMAIN prods THEN prods
  ELSE LET variants == prods[item.productId].variants
           i == FindVariant(variants, item.variantId)
       IN IF Len(variants) > 0 /\ item.variantId # None /\ i # 0
            THEN [prods EXCEPT ![item.productId].variants[i].stock =
                                  webhookNewStock(@, item.quantity)]
            ELSE prods

RECURSIVE webhookDecreaseFrom(_, _, _)
webhookDecreaseFrom(prods, items, k) ==
  IF k > Len(items) THEN prods
  ELSE webhookDecreaseFrom(webhookDecreaseItem(prods, items[k]), items, k + 1)

webhookDecreaseStock(prods, order) == webhookDecreaseFrom(prods, order.items, 1)

\* ----------------------------------------------------------- order store
\* The next _id: ids are handed out in order, and the id of a deleted order
\* is not handed out again.
FreeIds == {o \in OrderIds : orders[o] = NoOrder /\ o \notin purged}
NextId == CHOOSE o \in FreeIds : \A p \in FreeIds : o <= p

createOrderDocument(userId, guestInfo, items, paymentMethod, deliveryMethod, outletId) ==
  [exists |-> TRUE,
   userId |-> userId,
   guestInfo |-> IF userId # None THEN None ELSE guestInfo,
   items |-> [k \in 1..Len(items) |->
               [productId |-> items[k].productId,
                sellerId |-> IF items[k].productId \in DOMAIN products
                               THEN products[items[k].productId].sellerId
                               ELSE None,
                variantId |-> items[k].variantId,
                quantity |-> items[k].quantity]],
   paymentMethod |-> paymentMethod,
   deliveryMethod |-> deliveryMethod,
   outletId |-> IF deliveryMethod = "pickup" THEN outletId ELSE None,
   paymentStatus |-> "Pending",
   orderStatus |-> "Pending",
   stripeSessionId |-> None,
   trackingNumber |-> None,
   cancelledAt |-> FALSE,
   cancellationReason |-> None,
   aged |-> FALSE]

\* The contact email the confirmation is sent to: the user's, else the guest's.
customerEmail(order) ==
  IF order.userId # None THEN Users[order.userId].email
  ELSE order.guestInfo # None

\* What routes/notificationsRoutes.js exports next to the router.
NotificationExports == {"sendOrderConfirmationEmail", "sendStatusUpdateEmail"}

\* ------------------------------------------------------------------ init
\* The catalogue before any order: p1 (seller s1) with variants v1 and v2,
\* p2 (seller s2) without variants.
InitialProducts ==
  [p \in ProductIds |->
     IF p = "p1"
       THEN [sellerId |-> "s1",
             variants |-> <<Variant("v1", MaxStock), Variant("v2", 1)>>]
       ELSE [sellerId |-> "s2", variants |-> <<>>]]

Init ==
  /\ orders = [o \in OrderIds |-> NoOrder]
  /\ products = InitialProducts
  /\ carts = {}
  /\ sessions = [o \in OrderIds |-> "none"]
  /\ delivered = [o \in OrderIds |-> 0]
  /\ queue = <<>>
  /\ sent = {}
  /\ decs = [o \in OrderIds |-> 0]
  /\ restocks = [o \in OrderIds |-> 0]
  /\ resp = [op |-> "init", status |-> 0]
  /\ inflight = {}
  /\ purged = {}

\* --------------------------------------------------------------- helpers
\* A handler that runs from its request to its response in one step and
\* deletes no order: it answers, the stock loops of other requests stay
\* where they are and no order leaves the collection.
Respond(op, status) ==
  /\ resp' = [op |-> op, status |-> status]
  /\ inflight' = inflight
  /\ purged' = purged

\* getUserIdFromToken: the id in the bearer token, null without one.
getUserIdFromToken(caller) == caller

\* authMiddleware: 401 without a token, 403 for a user whose email is not
\* verified, else req.user is the caller's record.
authMiddleware(caller) ==
  IF caller = None THEN 401
  ELSE IF ~Users[caller].verified THEN 403
  ELSE 200

\* roleCheck(roles): 403 unless req.user.role is one of roles.
roleCheck(roles, caller) == IF Users[caller].role \in roles THEN 200 ELSE 403

\* ------------------------------------------------------------- cart routes
\* POST /cart/add: the user's cart document exists afterwards.
AddToCart(caller) ==
  /\ caller # None
  /\ carts' = carts \cup {caller}
  /\ Respond("cart", 200)
  /\ UNCHANGED <<orders, products, sessions, delivered, queue, sent, decs, restocks>>

\* ------------------------------------------------------ checkout: POST /stripe
\* outcome: "ok", or FRONTEND_URL is unusable ("badUrl"), or
\* stripe.checkout.sessions.create throws ("stripeError").
\* checkoutNotifications that sends the order confirmation at checkout.
checkoutNotifications_Sends(id, order) == sent \cup {<<"confirmation", id>>}

\* What POST /stripe sends: nothing, the confirmation is left to the webhook.
checkoutNotifications(id, order) == sent

StripeCheckout(caller, guestInfo, items, deliveryMethod, outletId, outcome) ==
  LET userId == getUserIdFromToken(caller) IN
  IF Len(items) = 0
    THEN /\ Respond("stripe", 400)
         /\ UNCHANGED <<orders, products, carts, sessions, delivered, queue, sent,
                        decs, restocks>>
    ELSE /\ FreeIds # {}
         /\ LET id == NextId
                order == createOrderDocument(userId, guestInfo, items, "Stripe",
                                             deliveryMethod, outletId)
            IN IF outcome = "ok"
                 THEN /\ orders' = [orders EXCEPT ![id] =
                                      [order EXCEPT !.stripeSessionId = "cs"]]
                      /\ sessions' = [sessions EXCEPT ![id] = "open"]
                      /\ sent' = checkoutNotifications(id, order)
                      /\ Respond("stripe", 200)
                 ELSE /\ orders' = [orders EXCEPT ![id] = order]
                      /\ sessions' = sessions
                      /\ sent' = sent
                      /\ Respond("stripe", 500)
         /\ UNCHANGED <<products, carts, delivered, queue, decs, restocks>>

\* -------------------------------------------------- checkout: POST /pickup
\* sendOrderConfirmation: the confirmation goes out when an email resolves.
sendOrderConfirmation(id, order) ==
  IF customerEmail(order) /\ "sendOrderConfirmationEmail" \in NotificationExports
    THEN sent \cup {<<"confirmation", id>>}
    ELSE sent

\* The handler, with the infrastructure failures of this request. A throw
\* of order.save() in createOrderDocument or of a product.save() in
\* decreaseOrderStock (the first save is the one that throws) reaches the
\* handler's catch; a throw of the cart delete is caught on the spot; a throw
\* inside sendOrderConfirmation enters its catch block, which reads
\* populatedOrder and customer, both declared inside the try block, so the
\* catch block throws in turn and the handler's catch answers 500.
PickupHandler(caller, guestInfo, items, outletId, faults) ==
  LET userId == getUserIdFromToken(caller)
      nothing == UNCHANGED <<orders, products, carts, sessions, delivered, queue,
                             sent, decs, restocks>>
  IN
  IF Len(items) = 0 \/ outletId = None THEN Respond("pickup", 400) /\ nothing
  ELSE IF "orderSave" \in faults THEN Respond("pickup", 500) /\ nothing
  ELSE /\ FreeIds # {}
       /\ LET id == NextId
              order == createOrderDocument(userId, guestInfo, items, "Pickup",
                                           "pickup", outletId)
              stockOk == "productSave" \notin faults
              emailOk == "email" \notin faults
          IN /\ orders' = [orders EXCEPT ![id] = order]
             /\ products' = IF stockOk THEN decreaseOrderStock(products, order)
                                       ELSE products
             /\ decs' = IF stockOk THEN [decs EXCEPT ![id] = @ + 1] ELSE decs
             /\ carts' = IF stockOk /\ userId # None /\ "cartDelete" \notin faults
                           THEN carts \ {userId} ELSE carts
             /\ sent' = IF stockOk /\ emailOk THEN sendOrderConfirmation(id, order)
                                               ELSE sent
             /\ Respond("pickup", IF stockOk /\ emailOk THEN 201 ELSE 500)
       /\ UNCHANGED <<sessions, delivered, queue, restocks>>

\* The handler when nothing fails.
PickupCheckout(caller, guestInfo, items, outletId) ==
  /\ caller \in Callers
  /\ PickupHandler(caller, guestInfo, items, outletId, {})

\* ------------------------------------------------------------------ Stripe
\* The customer completes the hosted checkout page of an open session.
CustomerPays(o) ==
  /\ sessions[o] = "open"
  /\ sessions' = [sessions EXCEPT ![o] = "paid"]
  /\ Respond("pay", 0)
  /\ UNCHANGED <<orders, products, carts, delivered, queue, sent, decs, restocks>>

\* constructEvent that accepts every signature.
constructEvent_Unverified(sigOk) == TRUE

\* stripe.webhooks.constructEvent: throws unless the signature matches.
constructEvent(sigOk) == sigOk

\* ------------------------------------------- POST /api/webhooks/stripe
\* The confirmation email of the webhook.
webhookConfirmation(id, order) ==
  IF customerEmail(order) /\ "sendOrderConfirmationEmail" \in NotificationExports
    THEN sent \cup {<<"confirmation", id>>}
    ELSE sent

\* orderLookup that answers a server error when no order is found.
orderLookup_ServerError(orderId) ==
  IF orderId = 0 THEN 500
  ELSE IF orderId < 0 THEN 500
  ELSE IF orders[orderId] = NoOrder THEN 500
  ELSE 200

\* The order lookup of the handler: 400 without an order id, a throw of
\* findById (500) on an id that is no ObjectId, 404 when no order is found.
orderLookup(orderId) ==
  IF orderId = 0 THEN 400
  ELSE IF orderId < 0 THEN 500
  ELSE IF orders[orderId] = NoOrder THEN 404
  ELSE 200

\* The handler, with the infrastructure failures of this request. A throw
\* of order.save() or of Cart.deleteOne reaches the outer catch (500); a
\* throw of a product.save() ends the stock loop and is caught there (the
\* first save is the one that throws); a throw of the email is caught.
WebhookHandler(sigOk, type, orderId, faults) ==
  LET nothing == UNCHANGED <<orders, products, carts, sessions, delivered, queue,
                             sent, decs, restocks>>
  IN
  IF ~constructEvent(sigOk) THEN Respond("webhook", 400) /\ nothing
  ELSE IF type # "checkout.session.completed" THEN Respond("webhook", 200) /\ nothing
  ELSE IF orderLookup(orderId) # 200 THEN Respond("webhook", orderLookup(orderId)) /\ nothing
  ELSE IF "orderSave" \in faults THEN Respond("webhook", 500) /\ nothing
  ELSE LET order == [orders[orderId] EXCEPT !.paymentStatus = "Paid"]
           stockOk == "productSave" \notin faults
           cartOk == order.userId = None \/ "cartDelete" \notin faults
       IN
       /\ orders' = [orders EXCEPT ![orderId] = order]
       /\ delivered' = [delivered EXCEPT ![orderId] = @ + 1]
       /\ products' = IF stockOk THEN webhookDecreaseStock(products, order) ELSE products
       /\ decs' = IF stockOk THEN [decs EXCEPT ![orderId] = @ + 1] ELSE decs
       /\ carts' = IF order.userId # None /\ cartOk THEN carts \ {order.userId} ELSE carts
       /\ sent' = IF cartOk /\ "email" \notin faults
                    THEN webhookConfirmation(orderId, order) ELSE sent
       /\ Respond("webhook", IF cartOk THEN 200 ELSE 500)
       /\ UNCHANGED <<sessions, queue, restocks>>

\* The handler when nothing fails.
Webhook(sigOk, type, orderId) ==
  /\ orderId \in EventOrderIds
  /\ WebhookHandler(sigOk, type, orderId, {})

\* What Stripe signs: the completion event of a paid session of this
\* application (it carries the order's id twice), the completion event of a
\* session made elsewhere in the account (no order id, one that is not an
\* ObjectId, or one that resolves to no order), or another event type.
Signs(type, orderId) ==
  (type = "checkout.session.completed" /\ orderId \in OrderIds /\ orders[orderId] # NoOrder)
    => /\ sessions[orderId] = "paid"
       /\ delivered[orderId] < MaxDeliveries

StripeDelivers(type, orderId) ==
  /\ Signs(type, orderId)
  /\ Webhook(TRUE, type, orderId)

\* A signed delivery handled while part of the infrastructure fails.
StripeDeliversFaulty(type, orderId, faults) ==
  /\ Signs(type, orderId)
  /\ WebhookHandler(TRUE, type, orderId, faults)

\* A delivery whose signature does not verify: any payload.
ForgedDelivery(type, orderId) ==
  /\ orderId \in EventOrderIds
  /\ Webhook(FALSE, type, orderId)

\* ------------------------------------------- stock loops, await by await
\* Product.findById(item.productId): the document as stored now.
NoProduct == [exists |-> FALSE]

findProduct(productId) ==
  IF productId \in DOMAIN products
    THEN [exists |-> TRUE, variants |-> products[productId].variants]
    ELSE NoProduct

\* variant.stock = Math.max(0, currentStock - item.quantity) on the document
\* that was read, then product.save(): the new value of that variant's stock
\* is $set on the stored product.
writeStock(prods, item, read) ==
  IF ~read.exists THEN prods
  ELSE LET i == FindVariant(read.variants, item.variantId)
       IN IF Len(read.variants) > 0 /\ item.variantId # None /\ i # 0
            THEN [prods EXCEPT ![item.productId].variants[i].stock =
                                  newStock(read.variants[i].stock, item.quantity)]
            ELSE prods

\* POST /pickup up to the first Product.findById of decreaseOrderStock.
PickupBegins(caller, guestInfo, items, outletId) ==
  /\ Len(items) > 0
  /\ outletId # None
  /\ FreeIds # {}
  /\ LET id == NextId
         order == createOrderDocument(getUserIdFromToken(caller), guestInfo, items,
                                      "Pickup", "pickup", outletId)
     IN /\ orders' = [orders EXCEPT ![id] = order]
        /\ inflight' = inflight \cup
                         {[op |-> "pickup", id |-> id, k |-> 1,
                           read |-> findProduct(items[1].productId)]}
  /\ UNCHANGED <<products, carts, sessions, delivered, queue, sent, decs, restocks, resp,
                 purged>>

\* The webhook on a signed completion event of an order, up to the first
\* Product.findById of its stock loop: the order is saved as Paid.
WebhookBegins(orderId) ==
  /\ orders[orderId] # NoOrder
  /\ Signs("checkout.session.completed", orderId)
  /\ \A r \in inflight : r.id # orderId
  /\ orders' = [orders EXCEPT ![orderId].paymentStatus = "Paid"]
  /\ delivered' = [delivered EXCEPT ![orderId] = @ + 1]
  /\ inflight' = inflight \cup
                   {[op |-> "webhook", id |-> orderId, k |-> 1,
                     read |-> findProduct(orders[orderId].items[1].productId)]}
  /\ UNCHANGED <<products, carts, sessions, queue, sent, decs, restocks, resp, purged>>

\* product.save() of the loop iteration r is in, then either the next
\* Product.findById or, after the last item, the rest of the handler.
DecrementSaves(r) ==
  /\ r \in inflight
  /\ LET order == orders[r.id]
         last == r.k = Len(order.items)
     IN /\ products' = writeStock(products, order.items[r.k], r.read)
        /\ IF last
             THEN /\ inflight' = inflight \ {r}
                  /\ decs' = [decs EXCEPT ![r.id] = @ + 1]
                  /\ carts' = IF order.userId # None THEN carts \ {order.userId} ELSE carts
                  /\ sent' = IF r.op = "pickup" THEN sendOrderConfirmation(r.id, order)
                                                ELSE webhookConfirmation(r.id, order)
                  /\ resp' = [op |-> r.op, status |-> IF r.op = "pickup" THEN 201 ELSE 200]
             ELSE /\ inflight' = (inflight \ {r}) \cup
                                  {[r EXCEPT !.k = r.k + 1,
                                             !.read =
                                               IF order.items[r.k + 1].productId \in DOMAIN products
                                                 THEN [exists |-> TRUE,
                                                       variants |->
                                                         products'[order.items[r.k + 1].productId].variants]
                                                 ELSE NoProduct]}
                  /\ UNCHANGED <<decs, carts, sent, resp>>
  /\ UNCHANGED <<orders, sessions, delivered, queue, restocks, purged>>

\* ------------------------------------------------------------ cancelOrder
\* ensureDefaultVariant: the first variant, or a new default bucket.
ensureDefaultVariant(variants) ==
  IF Len(variants) > 0 THEN variants ELSE Append(variants, Variant("default", 0))

\* One iteration of the "Recover stock" loop.
restockItem(prods, item) ==
  IF item.productId \notin DOMAIN prods THEN prods
  ELSE LET variants == prods[item.productId].variants
           found == IF Len(variants) > 0 /\ item.variantId # None
                      THEN FindVariant(variants, item.variantId) ELSE 0
           withDefault == IF found # 0 THEN variants ELSE ensureDefaultVariant(variants)
           i == IF found # 0 THEN found
                ELSE IF Len(variants) > 0 THEN 1 ELSE Len(withDefault)
       IN [prods EXCEPT ![item.productId].variants =
                          [withDefault EXCEPT ![i].stock = @ + item.quantity]]

RECURSIVE restockFrom(_, _, _)
restockFrom(prods, items, k) ==
  IF k > Len(items) THEN prods
  ELSE restockFrom(restockItem(prods, items[k]), items, k + 1)

\* cancelledDoc that does not record the reason.
cancelledDoc_NoReason(order, reason) ==
  [order EXCEPT !.orderStatus = "Cancelled",
                !.paymentStatus = IF order.paymentStatus = "Pending" THEN "Cancelled"
                                  ELSE IF order.paymentStatus # "Paid" THEN "Failed"
                                  ELSE order.paymentStatus,
                !.cancelledAt = TRUE]

\* The status fields cancelOrder sets on the document it was given.
cancelledDoc(order, reason) ==
  [order EXCEPT !.orderStatus = "Cancelled",
                !.paymentStatus = IF order.paymentStatus = "Pending" THEN "Cancelled"
                                  ELSE IF order.paymentStatus # "Paid" THEN "Failed"
                                  ELSE order.paymentStatus,
                !.cancelledAt = TRUE,
                !.cancellationReason = reason]

\* document.save(): the paths that differ from the loaded document are $set
\* on the stored one; the other stored paths stay as they are.
StatusPaths == {"orderStatus", "paymentStatus", "cancelledAt", "cancellationReason"}

save(stored, loaded, changed) ==
  IF stored = NoOrder THEN stored
  ELSE [f \in DOMAIN stored |->
          IF f \in StatusPaths /\ changed[f] # loaded[f] THEN changed[f] ELSE stored[f]]

\* The contact of the cancellation email: guestInfo first, then the user.
cancellationEmail(order) ==
  IF order.guestInfo # None THEN TRUE
  ELSE IF order.userId # None THEN Users[order.userId].email
  ELSE FALSE

\* cancelOrder(order, reason) on the document `order` of order `id`, with
\* the failures of this call: a throw of a product.save() (the first one)
\* leaves everything as it was; a throw of order.save() comes after the
\* products were saved. Both are rethrown to the caller.
cancelOrderWith(id, order, reason, faults) ==
  IF order.orderStatus = "Cancelled" \/ "productSave" \in faults
    THEN UNCHANGED <<orders, products, sent, restocks>>
    ELSE /\ products' = restockFrom(products, order.items, 1)
         /\ restocks' = [restocks EXCEPT ![id] = @ + 1]
         /\ orders' = IF "orderSave" \in faults THEN orders
                      ELSE [orders EXCEPT ![id] = save(@, order, cancelledDoc(order, reason))]
         /\ sent' = IF "orderSave" \notin faults
                       /\ cancellationEmail(order)
                       /\ "sendOrderCancellationEmail" \in NotificationExports
                      THEN sent \cup {<<"cancellation", id>>}
                      ELSE sent

\* cancelOrder when nothing fails.
cancelOrder(id, order, reason) == cancelOrderWith(id, order, reason, {})

\* ------------------------------------------------- checkAbandonedOrders
\* The clock passes the grace period of an order.
Age(o) ==
  /\ orders[o] # NoOrder
  /\ ~orders[o].aged
  /\ orders' = [orders EXCEPT ![o].aged = TRUE]
  /\ Respond("clock", 0)
  /\ UNCHANGED <<products, carts, sessions, delivered, queue, sent, decs, restocks>>

\* Abandoned without the payment method in the filter.
Abandoned_AnyMethod(o) ==
  /\ orders[o] # NoOrder
  /\ orders[o].paymentStatus = "Pending"
  /\ orders[o].orderStatus = "Pending"
  /\ orders[o].aged

\* The filter of Order.find.
Abandoned(o) ==
  /\ orders[o] # NoOrder
  /\ orders[o].paymentMethod = "Stripe"
  /\ orders[o].paymentStatus = "Pending"
  /\ orders[o].orderStatus = "Pending"
  /\ orders[o].aged

\* Order.find(...): the matching documents, as loaded.
SweepFind ==
  /\ queue = <<>>
  /\ queue' = [k \in 1..Cardinality({o \in OrderIds : Abandoned(o)}) |->
                 LET id == CHOOSE o \in OrderIds :
                             /\ Abandoned(o)
                             /\ Cardinality({p \in OrderIds : Abandoned(p) /\ p < o}) = k - 1
                 IN [id |-> id, doc |-> orders[id]]]
  /\ queue' # <<>>
  /\ Respond("sweep", 0)
  /\ UNCHANGED <<orders, products, carts, sessions, delivered, sent, decs, restocks>>

\* A run of checkAbandonedOrders that starts while another run still has
\* candidates to handle (nothing keeps the scheduler from starting it): its
\* Order.find loads the documents that match now, and its candidates are
\* handled after those of the running one. At most MaxSweeps runs hold the
\* same order at a time.
SweepFindAgain ==
  /\ queue # <<>>
  /\ \A o \in OrderIds :
       Cardinality({k \in 1..Len(queue) : queue[k].id = o}) < MaxSweeps
  /\ \E o \in OrderIds : Abandoned(o)
  /\ queue' = queue \o
                [k \in 1..Cardinality({o \in OrderIds : Abandoned(o)}) |->
                   LET id == CHOOSE o \in OrderIds :
                               /\ Abandoned(o)
                               /\ Cardinality({p \in OrderIds : Abandoned(p) /\ p < o}) = k - 1
                   IN [id |-> id, doc |-> orders[id]]]
  /\ Respond("sweep", 0)
  /\ UNCHANGED <<orders, products, carts, sessions, delivered, sent, decs, restocks>>

\* SweepStep that cancels a candidate whatever its session's payment_status.
SweepStep_IgnoresPaid(retrieved) ==
  /\ queue # <<>>
  /\ cancelOrder(Head(queue).id, Head(queue).doc, "abandoned")
  /\ queue' = Tail(queue)
  /\ Respond("sweep", 0)
  /\ UNCHANGED <<carts, sessions, delivered, decs>>

\* One iteration of the loop over abandonedOrders. retrieved: whether
\* stripe.checkout.sessions.retrieve returned the session (else it threw).
SweepStep(retrieved) ==
  /\ queue # <<>>
  /\ LET id == Head(queue).id
         order == Head(queue).doc
     IN IF order.stripeSessionId # None /\ retrieved /\ sessions[id] = "paid"
          THEN /\ orders' = [orders EXCEPT ![id] =
                               save(@, order, [order EXCEPT !.paymentStatus = "Paid"])]
               /\ UNCHANGED <<products, sent, restocks>>
          ELSE cancelOrder(id, order, "abandoned")
  /\ queue' = Tail(queue)
  /\ Respond("sweep", 0)
  /\ UNCHANGED <<carts, sessions, delivered, decs>>

\* afterCandidate that gives up the batch when a candidate threw.
afterCandidate_Aborts(candidates, threw) ==
  IF threw THEN <<>> ELSE Tail(candidates)

\* The for loop's try / catch around one candidate: whether the candidate
\* threw or not, the loop goes on with the next one.
afterCandidate(candidates, threw) == Tail(candidates)

\* One iteration of the loop over abandonedOrders with the failures of this
\* iteration: a throw of sessions.retrieve (retrieved = FALSE) is caught and
\* the candidate is cancelled; a throw of order.save() or of cancelOrder is
\* caught by the loop.
SweepHandle(retrieved, faults) ==
  /\ queue # <<>>
  /\ LET id == Head(queue).id
         order == Head(queue).doc
     IN /\ "orderSave" \in faults => restocks[id] < MaxRestocks - 1
        /\ IF order.stripeSessionId # None /\ retrieved /\ sessions[id] = "paid"
             THEN /\ orders' = IF "orderSave" \in faults THEN orders
                               ELSE [orders EXCEPT ![id] =
                                      save(@, order, [order EXCEPT !.paymentStatus = "Paid"])]
                  /\ UNCHANGED <<products, sent, restocks>>
             ELSE cancelOrderWith(id, order, "abandoned", faults)
  /\ queue' = afterCandidate(queue, faults # {})
  /\ Respond("sweep", 0)
  /\ UNCHANGED <<carts, sessions, delivered, decs>>

\* ------------------------------------------------ POST /:orderId/process
\* canProcess that admits every seller, whatever the order's items.
canProcess_AnySeller(caller, order) ==
  Users[caller].role \in {"company", "admin", "seller_candidate", "seller"}

canProcess(caller, order) ==
  IF Users[caller].role \in {"company", "admin"} THEN TRUE
  ELSE IF Users[caller].role \in {"seller_candidate", "seller"}
    THEN \E k \in 1..Len(order.items) : order.items[k].sellerId = caller
  ELSE FALSE

\* sendOrderNotifications(order, isPickup, trackingNumber).
sendOrderNotifications(id, order, isPickup, trackingNumber) ==
  IF ~customerEmail(order) \/ "sendStatusUpdateEmail" \notin NotificationExports THEN sent
  ELSE IF isPickup THEN sent \cup {<<"Ready for Pickup", id>>}
  ELSE IF trackingNumber # None THEN sent \cup {<<"Shipped", id>>}
  ELSE sent

\* processStock that takes the order's items from stock.
processStock_Decreases(prods, order) == decreaseOrderStock(prods, order)

\* "Update order status only - No stock management": the handler saves the
\* order and no product.
processStock(prods, order) == prods

Process(caller, orderId, trackingNumber, isPickup) ==
  LET nothing == UNCHANGED <<orders, products, carts, sessions, delivered, queue,
                             sent, decs, restocks>>
  IN
  IF authMiddleware(caller) # 200 THEN Respond("process", authMiddleware(caller)) /\ nothing
  ELSE IF getUserIdFromToken(caller) = None THEN Respond("process", 401) /\ nothing
  ELSE IF orders[orderId] = NoOrder THEN Respond("process", 404) /\ nothing
  ELSE IF ~canProcess(caller, orders[orderId]) THEN Respond("process", 403) /\ nothing
  ELSE LET order == [orders[orderId] EXCEPT
                       !.orderStatus = "Processing",
                       !.trackingNumber =
                          IF trackingNumber # None
                             /\ orders[orderId].deliveryMethod = "delivery"
                            THEN trackingNumber ELSE @]
       IN /\ orders' = [orders EXCEPT ![orderId] = order]
          /\ products' = processStock(products, order)
          /\ sent' = sendOrderNotifications(orderId, order, isPickup, trackingNumber)
          /\ Respond("process", 200)
          /\ UNCHANGED <<carts, sessions, delivered, queue, decs, restocks>>

\* ------------------------------------------------ PUT /:orderId/tracking
\* findByIdAndUpdate; the notification block throws on order._id.slice
\* before anything is posted, and the throw is caught.
Tracking(caller, orderId, trackingNumber) ==
  LET nothing == UNCHANGED <<orders, products, carts, sessions, delivered, queue,
                             sent, decs, restocks>>
  IN
  IF authMiddleware(caller) # 200 THEN Respond("tracking", authMiddleware(caller)) /\ nothing
  ELSE IF roleCheck({"admin", "company"}, caller) # 200
    THEN Respond("tracking", 403) /\ nothing
  ELSE IF orders[orderId] = NoOrder THEN Respond("tracking", 404) /\ nothing
  ELSE /\ orders' = [orders EXCEPT ![orderId].orderStatus = "Processing",
                                   ![orderId].trackingNumber =
                                      IF trackingNumber # None THEN trackingNumber ELSE @]
       /\ Respond("tracking", 200)
       /\ UNCHANGED <<products, carts, sessions, delivered, queue, sent, decs, restocks>>

\* ------------------------------------------ DELETE /processed/bulk-delete
\* purgeFilter that matches an order whatever its status.
purgeFilter_Any(order) == TRUE

\* The filter of Order.find and of Order.deleteMany, next to _id: { $in }.
purgeFilter(order) == order.orderStatus = "Processing"

\* orderIds: the ids of the request body, as a set.
BulkDelete(caller, orderIds) ==
  LET nothing == UNCHANGED <<orders, products, carts, sessions, delivered, queue,
                             sent, decs, restocks>>
      found == {o \in orderIds : orders[o] # NoOrder /\ purgeFilter(orders[o])}
  IN
  IF authMiddleware(caller) # 200
    THEN Respond("bulk-delete", authMiddleware(caller)) /\ nothing
  ELSE IF roleCheck({"admin", "company"}, caller) # 200
    THEN Respond("bulk-delete", 403) /\ nothing
  ELSE IF orderIds = {} THEN Respond("bulk-delete", 400) /\ nothing
  ELSE IF found = {} THEN Respond("bulk-delete", 404) /\ nothing
  ELSE /\ orders' = [o \in OrderIds |-> IF o \in found THEN NoOrder ELSE orders[o]]
       /\ purged' = purged \cup found
       /\ resp' = [op |-> "bulk-delete", status |-> 200]
       /\ inflight' = inflight
       /\ UNCHANGED <<products, carts, sessions, delivered, queue, sent, decs, restocks>>

\* ------------------------------------------------------------------ next
Item(productId, variantId, quantity) ==
  [productId |-> productId, variantId |-> variantId, quantity |-> quantity]

\* The item lists of the checkout requests: variant v1 in the largest
\* quantity, v1 together with v2, and a list whose items name a missing
\* variant, a product without variants and a deleted product.
Carts ==
  {<<Item("p1", "v1", MaxQty)>>,
   <<Item("p1", "v1", 1), Item("p1", "v2", 1)>>,
   <<Item("p1", "vX", 1), Item("p2", None, 1), Item("gone", "v1", 1)>>}

\* The lifecycle specifications create at most MaxOrders orders.
MayCreate == Cardinality({o \in OrderIds : orders[o] # NoOrder}) < MaxOrders

Buyers == {None, "u1"}
\* Who calls the purge: nobody, a buyer, an unverified user, an admin.
PurgeCallers == {None, "u1", "s3", "a1"}
GuestInfos == {None, "guest"}
Outlets == {None, "outlet1"}
TrackingNumbers == {None, "TRK1"}

\* The order lifecycle of a registered buyer: checkout, payment, webhook
\* deliveries and redeliveries, the sweeper, and fulfillment by an admin.
Next ==
  \/ AddToCart("u1")
  \/ \E items \in Carts : MayCreate /\ StripeCheckout("u1", None, items, "delivery", None, "ok")
  \/ \E items \in Carts : MayCreate /\ PickupCheckout("u1", None, items, "outlet1")
  \/ \E o \in OrderIds : CustomerPays(o)
  \/ \E o \in OrderIds : StripeDelivers("checkout.session.completed", o)
  \/ \E o \in OrderIds : Age(o)
  \/ SweepFind
  \/ \E retrieved \in BOOLEAN : SweepStep(retrieved)
  \/ \E o \in OrderIds, t \in TrackingNumbers : Process("a1", o, t, FALSE)
  \/ \E o \in OrderIds : Tracking("a1", o, "TRK1")

Spec == Init /\ [][Next]_vars

\* Stock and payment: the operations that read or write variant stock, the
\* payment status and the carts.
NextStock ==
  \/ AddToCart("u1")
  \/ \E items \in Carts : MayCreate /\ StripeCheckout("u1", None, items, "delivery", None, "ok")
  \/ \E items \in Carts : MayCreate /\ PickupCheckout("u1", None, items, "outlet1")
  \/ \E o \in OrderIds : CustomerPays(o)
  \/ \E o \in OrderIds : StripeDelivers("checkout.session.completed", o)
  \/ \E o \in OrderIds : Age(o)
  \/ SweepFind
  \/ \E retrieved \in BOOLEAN : SweepStep(retrieved)

SpecStock == Init /\ [][NextStock]_vars

\* The fulfillment authorization: every role at POST /:orderId/process and
\* PUT /:orderId/tracking, on orders of either checkout.
NextAuth ==
  \/ MayCreate /\ StripeCheckout("u1", None, <<Item("p1", "v1", 1)>>, "delivery", None, "ok")
  \/ \E items \in Carts : MayCreate /\ PickupCheckout("u1", None, items, "outlet1")
  \/ \E c \in Callers, o \in OrderIds, t \in TrackingNumbers, isPickup \in BOOLEAN :
       Process(c, o, t, isPickup)
  \/ \E c \in Callers, o \in OrderIds, t \in TrackingNumbers : Tracking(c, o, t)

SpecAuth == Init /\ [][NextAuth]_vars

\* Order creation: every identity, delivery method, outlet and outcome of
\* the two checkouts.
NextCreate ==
  \/ AddToCart("u1")
  \/ \E c \in Buyers, g \in GuestInfos, items \in Carts \cup {<<>>},
        d \in {"delivery", "pickup"}, out \in Outlets,
        outcome \in {"ok", "badUrl", "stripeError"} :
       StripeCheckout(c, g, items, d, out, outcome)
  \/ \E c \in Buyers, g \in GuestInfos, items \in Carts \cup {<<>>}, out \in Outlets :
       PickupCheckout(c, g, items, out)

SpecCreate == Init /\ [][NextCreate]_vars

\* The webhook endpoint: every delivery Stripe signs and every forged one,
\* on card orders that are paid, swept or still open.
NextWebhook ==
  \/ AddToCart("u1")
  \/ \E c \in Buyers :
       MayCreate /\ StripeCheckout(c, "guest", <<Item("p1", "v1", 1)>>, "delivery", None, "ok")
  \/ \E o \in OrderIds : CustomerPays(o)
  \/ \E t \in EventTypes, o \in EventOrderIds : StripeDelivers(t, o)
  \/ \E t \in EventTypes, o \in EventOrderIds : ForgedDelivery(t, o)
  \/ \E o \in OrderIds : Age(o)
  \/ SweepFind
  \/ \E retrieved \in BOOLEAN : SweepStep(retrieved)

SpecWebhook == Init /\ [][NextWebhook]_vars

\* Requests handled while part of the infrastructure fails: the pickup
\* checkout and the webhook under every combination of failures.
FaultSets == {{}} \cup {{f} : f \in Faults}

NextFaults ==
  \/ AddToCart("u1")
  \/ \E c \in Buyers :
       MayCreate /\ StripeCheckout(c, "guest", <<Item("p1", "v1", 1)>>, "delivery", None, "ok")
  \/ \E c \in Buyers, faults \in FaultSets :
       MayCreate /\ PickupHandler(c, "guest", <<Item("p1", "v1", 1)>>, "outlet1", faults)
  \/ \E o \in OrderIds : CustomerPays(o)
  \/ \E t \in EventTypes, o \in EventOrderIds, faults \in FaultSets :
       StripeDeliversFaulty(t, o, faults)

SpecFaults == Init /\ [][NextFaults]_vars

\* The abandonment sweep over several candidates, next to card and pickup
\* checkouts, payments, webhook deliveries and processing.
NextSweep ==
  \/ StripeCheckout(None, "guest", <<Item("p1", "v1", 1)>>, "delivery", None, "ok")
  \/ PickupCheckout(None, "guest", <<Item("p1", "v1", 1)>>, "outlet1")
  \/ \E o \in OrderIds : CustomerPays(o)
  \/ \E o \in OrderIds : StripeDelivers("checkout.session.completed", o)
  \/ \E o \in OrderIds : Age(o)
  \/ \E o \in OrderIds : Process("a1", o, None, FALSE)
  \/ SweepFind
  \/ \E retrieved \in BOOLEAN : SweepStep(retrieved)

SpecSweep == Init /\ [][NextSweep]_vars

\* What can fail while the sweep handles a candidate.
SweepFaults == SUBSET {"orderSave", "productSave"}

\* Concurrent stock loops: pickup checkouts and webhooks whose reads and
\* saves of the product interleave.
NextRace ==
  \/ \E items \in Carts : PickupBegins(None, "guest", items, "outlet1")
  \/ StripeCheckout(None, "guest", <<Item("p1", "v1", 1)>>, "delivery", None, "ok")
  \/ \E o \in OrderIds : CustomerPays(o)
  \/ \E o \in OrderIds : WebhookBegins(o)
  \/ \E r \in inflight : DecrementSaves(r)

SpecRace == Init /\ [][NextRace]_vars

\* One sweep after another over unpaid and paid card orders: the for loop
\* takes its next iteration whenever there is one.
NextSweepRun ==
  \/ StripeCheckout(None, "guest", <<Item("p1", "v1", 1)>>, "delivery", None, "ok")
  \/ \E o \in OrderIds : CustomerPays(o)
  \/ \E o \in OrderIds : Age(o)
  \/ SweepFind
  \/ \E retrieved \in BOOLEAN, faults \in SweepFaults : SweepHandle(retrieved, faults)

SpecSweepFair ==
  /\ Init
  /\ [][NextSweepRun]_vars
  /\ WF_vars(\E retrieved \in BOOLEAN, faults \in SweepFaults : SweepHandle(retrieved, faults))

\* The administrative purge: every caller and every list of ids, on orders
\* that are pending, processing and cancelled.
NextPurge ==
  \/ StripeCheckout(None, "guest", <<Item("p1", "v1", 1)>>, "delivery", None, "ok")
  \/ PickupCheckout(None, "guest", <<Item("p1", "v1", 1)>>, "outlet1")
  \/ \E o \in OrderIds : Age(o)
  \/ SweepFind
  \/ \E retrieved \in BOOLEAN : SweepStep(retrieved)
  \/ \E o \in OrderIds : Process("a1", o, None, FALSE)
  \/ \E c \in PurgeCallers, ids \in SUBSET OrderIds : BulkDelete(c, ids)

SpecPurge == Init /\ [][NextPurge]_vars

\* Runs of the sweep that overlap in time, over unpaid and paid card orders.
NextOverlap ==
  \/ StripeCheckout(None, "guest", <<Item("p1", "v1", 1)>>, "delivery", None, "ok")
  \/ \E o \in OrderIds : CustomerPays(o)
  \/ \E o \in OrderIds : Age(o)
  \/ SweepFind
  \/ SweepFindAgain
  \/ \E retrieved \in BOOLEAN : SweepStep(retrieved)

SpecOverlap == Init /\ [][NextOverlap]_vars

\* ============================================================ properties
VariantIds == {"v1", "v2", "vX", "default"}

\* The stock of variant v of product p in a catalogue, 0 when there is none.
Stock(prods, p, v) ==
  LET i == FindVariant(prods[p].variants, v)
  IN IF i = 0 THEN 0 ELSE prods[p].variants[i].stock

\* The quantity an item list orders of variant v of product p.
RECURSIVE QtyFrom(_, _, _, _)
QtyFrom(items, p, v, k) ==
  IF k > Len(items) THEN 0
  ELSE (IF items[k].productId = p /\ items[k].variantId = v THEN items[k].quantity ELSE 0)
       + QtyFrom(items, p, v, k + 1)

QtyFor(items, p, v) == QtyFrom(items, p, v, 1)

Created == {o \in OrderIds : orders[o] # NoOrder}

\* C1: a redelivery of the payment confirmation of an order (one that was
\* handled before) leaves every variant's stock and every cart as they are.
C1_RedeliveryChangesNothing ==
  [][\A o \in OrderIds :
       (delivered[o] >= 1 /\ delivered'[o] > delivered[o])
         => (products' = products /\ carts' = carts /\ decs'[o] <= 1)]_vars

\* C2: a cancellation adds the ordered quantity to each line item's variant,
\* and when the cancelled order is the only order, the stock is then what it
\* was before the order was created.
C2_CancelRestoresStock ==
  [][\A o \in OrderIds :
       restocks'[o] > restocks[o]
         => /\ \A p \in ProductIds, v \in VariantIds :
                 Stock(products', p, v) =
                   Stock(products, p, v) + QtyFor(orders[o].items, p, v)
            /\ Created = {o} =>
                 \A p \in ProductIds, v \in VariantIds :
                   Stock(products', p, v) = Stock(InitialProducts, p, v)]_vars

\* The total quantity the decrements so far have taken from variant v of p.
RECURSIVE Decremented(_, _, _)
Decremented(S, p, v) ==
  IF S = {} THEN 0
  ELSE LET o == CHOOSE x \in S : TRUE
       IN decs[o] * QtyFor(orders[o].items, p, v) + Decremented(S \ {o}, p, v)

\* C3: no variant's stock is negative, and as long as nothing was restocked
\* the stock of a variant is max(0, initial stock - the sum of the
\* quantities of the decrements applied to it).
C3_StockFloorAtZero ==
  /\ \A p \in ProductIds : \A i \in 1..Len(products[p].variants) :
       products[p].variants[i].stock >= 0
  /\ (\A o \in OrderIds : restocks[o] = 0) =>
       \A p \in ProductIds, v \in VariantIds :
         Stock(products, p, v) =
           Max(0, Stock(InitialProducts, p, v) - Decremented(Created, p, v))

\* C3 witness: v1 was decremented twice and the second decrement was clamped.
C3_Witness ==
  \E o \in Created :
    /\ decs[o] = 2
    /\ restocks[o] = 0
    /\ QtyFor(orders[o].items, "p1", "v1") > 0
    /\ Stock(InitialProducts, "p1", "v1") - Decremented(Created, "p1", "v1") < 0
    /\ Stock(products, "p1", "v1") = 0

\* C4: the step that creates a pickup order answers 201 with every line item
\* taken from stock; the step that creates a card order leaves the stock as it
\* is; and a card order's items are decremented only in a step that handles a
\* verified checkout.session.completed event of that order's paid session.
C4_DecrementTiming ==
  [][\A o \in OrderIds :
       /\ (orders[o] = NoOrder /\ orders'[o] # NoOrder /\ orders'[o].paymentMethod = "Pickup")
            => /\ resp' = [op |-> "pickup", status |-> 201]
               /\ decs'[o] = 1
               /\ \A p \in ProductIds, v \in VariantIds :
                    Stock(products', p, v) =
                      Max(0, Stock(products, p, v) - QtyFor(orders'[o].items, p, v))
       /\ (orders[o] = NoOrder /\ orders'[o] # NoOrder /\ orders'[o].paymentMethod = "Stripe")
            => (products' = products /\ decs'[o] = 0)
       /\ (orders[o] # NoOrder /\ orders[o].paymentMethod = "Stripe" /\ decs'[o] # decs[o])
            => /\ sessions[o] = "paid"
               /\ delivered'[o] = delivered[o] + 1
               /\ resp' = [op |-> "webhook", status |-> 200]
               /\ \A p \in ProductIds, v \in VariantIds :
                    Stock(products', p, v) =
                      Max(0, Stock(products, p, v) - QtyFor(orders[o].items, p, v))
       /\ \A p \in ProductIds, v \in VariantIds :
            Stock(products', p, v) < Stock(products, p, v) => \E x \in OrderIds : decs'[x] > decs[x]]_vars

\* C4 witness: a card order whose items were taken from stock by the webhook.
C4_Witness ==
  \E o \in Created :
    /\ orders[o].paymentMethod = "Stripe"
    /\ delivered[o] = 1
    /\ decs[o] = 1
    /\ Stock(products, "p1", "v1") < Stock(InitialProducts, "p1", "v1")

C6_PaymentStatusForward ==
  [][\A o \in OrderIds :
       (orders[o] # NoOrder /\ orders'[o].paymentStatus # orders[o].paymentStatus)
         => /\ orders[o].paymentStatus = "Pending"
            /\ orders'[o].paymentStatus \in {"Paid", "Failed", "Cancelled"}]_vars

\* C7: an order's orderStatus changes only away from Pending.
C7_OrderStatusForward ==
  [][\A o \in OrderIds :
       (orders[o] # NoOrder /\ orders'[o].orderStatus # orders[o].orderStatus)
         => orders[o].orderStatus = "Pending"]_vars

\* C8: every stored order has a user reference or guest contact details,
\* and never both.
C8_UserXorGuest ==
  \A o \in Created : (orders[o].userId # None) # (orders[o].guestInfo # None)

\* The rule of the claim: admin and company, or a seller / seller candidate
\* who is the seller of one of the order's line items.
MayProcess(caller, order) ==
  \/ Users[caller].role \in {"admin", "company"}
  \/ /\ Users[caller].role \in {"seller", "seller_candidate"}
     /\ \E k \in 1..Len(order.items) : order.items[k].sellerId = caller

\* C9: POST /:orderId/process on an existing order changes the orders only
\* when the caller is one the rule admits; every other user is answered 403
\* and a request without a token 401, and both leave the orders as they are;
\* a verified caller the rule admits is answered 200 and the order is stored
\* as Processing.
C9_ProcessAuthorization ==
  [][\A c \in Callers, o \in OrderIds, t \in TrackingNumbers, isPickup \in BOOLEAN :
       (orders[o] # NoOrder /\ Process(c, o, t, isPickup))
         => /\ orders' # orders => (c # None /\ MayProcess(c, orders[o]))
            /\ c = None => (resp'.status = 401 /\ orders' = orders)
            /\ (c # None /\ ~MayProcess(c, orders[o]))
                 => (resp'.status = 403 /\ orders' = orders)
            /\ (c # None /\ MayProcess(c, orders[o]) /\ Users[c].verified)
                 => (resp'.status = 200 /\ orders'[o].orderStatus = "Processing")]_vars

\* C9 witness: a process request on a pending order was refused with 403.
C9_Witness ==
  /\ resp = [op |-> "process", status |-> 403]
  /\ \E o \in Created : orders[o].orderStatus = "Pending"

\* C10: a webhook request whose signature does not verify is answered 400
\* and changes no order, no stock, no cart and sends nothing.
C10_ForgedWebhookRejected ==
  [][\A t \in EventTypes, o \in EventOrderIds :
       Webhook(FALSE, t, o)
         => /\ resp'.status = 400
            /\ UNCHANGED <<orders, products, carts, sent, decs>>]_vars

\* C10 witness: a webhook request was answered 400 while an unpaid card
\* order was waiting for its payment confirmation.
C10_Witness ==
  /\ resp = [op |-> "webhook", status |-> 400]
  /\ \E o \in Created : orders[o].paymentStatus = "Pending" /\ sessions[o] = "open"

C12_SideEffectsIndependent ==
  [][\A o \in OrderIds, faults \in FaultSets :
       (/\ orders[o] # NoOrder
        /\ "orderSave" \notin faults
        /\ WebhookHandler(TRUE, "checkout.session.completed", o, faults))
         => /\ resp'.status = 200
            /\ "productSave" \notin faults => decs'[o] = decs[o] + 1
            /\ ("cartDelete" \notin faults /\ orders[o].userId # None)
                 => orders[o].userId \notin carts'
            /\ "email" \notin faults => <<"confirmation", o>> \in sent']_vars

\* C13: a pickup checkout whose confirmation email throws still answers 201,
\* with the order stored and its items taken from stock.
C13_PickupEmailFailureTolerated ==
  [][\A c \in Buyers :
       (/\ FreeIds # {}
        /\ PickupHandler(c, "guest", <<Item("p1", "v1", 1)>>, "outlet1", {"email"}))
         => /\ resp' = [op |-> "pickup", status |-> 201]
            /\ orders'[NextId] # NoOrder
            /\ decs'[NextId] = 1]_vars

\* C14: the step that creates a card order sends nothing, and a step that
\* sends the confirmation of a card order is a webhook step for that order's
\* paid session that stores the order as Paid.
C14_ConfirmationAfterPayment ==
  [][\A o \in OrderIds :
       /\ (orders[o] = NoOrder /\ orders'[o] # NoOrder /\ orders'[o].paymentMethod = "Stripe")
            => sent' = sent
       /\ (orders'[o] # NoOrder /\ orders'[o].paymentMethod = "Stripe"
            /\ <<"confirmation", o>> \in sent' /\ <<"confirmation", o>> \notin sent)
            => /\ resp' = [op |-> "webhook", status |-> 200]
               /\ sessions[o] = "paid"
               /\ delivered'[o] = delivered[o] + 1
               /\ orders'[o].paymentStatus = "Paid"]_vars

\* C14 witness: the confirmation of a paid card order has been sent.
C14_Witness ==
  \E o \in Created :
    /\ orders[o].paymentMethod = "Stripe"
    /\ orders[o].paymentStatus = "Paid"
    /\ <<"confirmation", o>> \in sent

C16_SweepIsolatesFailures ==
  /\ [][\A retrieved \in BOOLEAN, faults \in SweepFaults :
          (queue # <<>> /\ SweepHandle(retrieved, faults))
            => (queue' = Tail(queue) /\ resp' = [op |-> "sweep", status |-> 0])]_vars
  /\ (queue # <<>>) ~> (queue = <<>>)

\* C16 witness: the first candidate failed (its items were restocked and the
\* save of the order threw, so it is still Pending) and the second candidate
\* is the next to be handled.
C16_Witness ==
  \E o1, o2 \in Created :
    /\ o1 < o2
    /\ restocks[o1] >= 1
    /\ orders[o1].orderStatus = "Pending"
    /\ Len(queue) = 1
    /\ Head(queue).id = o2

\* C20: Order.find selects exactly the stored orders that are Stripe, Pending,
\* Pending and older than the grace period, and an order is cancelled or
\* restocked only in the sweep step of a candidate that was selected so.
C20_OnlyAbandonedCancelled ==
  [][/\ \A k \in 1..Len(queue') :
          queue = <<>> =>
            /\ queue'[k].doc = orders[queue'[k].id]
            /\ queue'[k].doc.paymentMethod = "Stripe"
            /\ queue'[k].doc.paymentStatus = "Pending"
            /\ queue'[k].doc.orderStatus = "Pending"
            /\ queue'[k].doc.aged
     /\ \A o \in OrderIds :
          (\/ restocks'[o] > restocks[o]
           \/ /\ orders[o] # NoOrder
              /\ orders[o].orderStatus # "Cancelled"
              /\ orders'[o].orderStatus = "Cancelled")
            => /\ queue # <<>>
               /\ Head(queue).id = o
               /\ Head(queue).doc.paymentMethod = "Stripe"
               /\ Head(queue).doc.paymentStatus = "Pending"
               /\ Head(queue).doc.orderStatus = "Pending"
               /\ Head(queue).doc.aged]_vars

\* C20 witness: a sweep has cancelled a card order and left alone a pickup
\* order that is older than the grace period and still Pending.
C20_Witness ==
  \E o1, o2 \in Created :
    /\ orders[o1].paymentMethod = "Pickup"
    /\ orders[o1].aged
    /\ orders[o1].orderStatus = "Pending"
    /\ restocks[o1] = 0
    /\ orders[o2].orderStatus = "Cancelled"
    /\ queue = <<>>

\* C17: every stored order whose deliveryMethod is pickup has an outlet.
C17_PickupHasOutlet ==
  \A o \in Created : orders[o].deliveryMethod = "pickup" => orders[o].outletId # None

\* C18: when no stock loop is in flight (and nothing was restocked), every
\* variant's stock is max(0, initial stock - the quantities of all the
\* decrements that ran), however their reads and saves interleaved.
C18_NoLostDecrement ==
  (inflight = {} /\ \A o \in OrderIds : restocks[o] = 0)
    => \A p \in ProductIds, v \in VariantIds :
         Stock(products, p, v) =
           Max(0, Stock(InitialProducts, p, v) - Decremented(Created, p, v))

\* C19: once a webhook has stored an order as Paid, no step stores
\* Cancelled in its paymentStatus or orderStatus or restocks its items; and
\* once the sweep has cancelled an order, no step stores Paid or takes its
\* items from stock.
C19_NoLostUpdate ==
  [][\A o \in OrderIds :
       /\ (orders[o] # NoOrder /\ delivered[o] >= 1)
            => /\ orders'[o].paymentStatus # "Cancelled"
               /\ orders'[o].orderStatus # "Cancelled"
               /\ restocks'[o] = restocks[o]
       /\ (orders[o] # NoOrder /\ orders[o].orderStatus = "Cancelled")
            => /\ orders'[o].paymentStatus # "Paid"
               /\ decs'[o] = decs[o]]_vars

\* C21: a sweep step that cancels an order sends a cancellation notification
\* exactly when the candidate's contact email resolves (guestInfo, else the
\* user record).
C21_CancellationEmailAttempted ==
  [][\A retrieved \in BOOLEAN :
       (/\ queue # <<>>
        /\ SweepStep(retrieved)
        /\ orders[Head(queue).id] # NoOrder
        /\ orders[Head(queue).id].orderStatus # "Cancelled"
        /\ orders'[Head(queue).id].orderStatus = "Cancelled")
         => (cancellationEmail(Head(queue).doc)
               <=> <<"cancellation", Head(queue).id>> \in sent')]_vars

\* The stock of all variants of product p together.
RECURSIVE TotalFrom(_, _)
TotalFrom(variants, k) ==
  IF k > Len(variants) THEN 0 ELSE variants[k].stock + TotalFrom(variants, k + 1)

TotalStock(prods, p) == TotalFrom(prods[p].variants, 1)

\* The quantity an item list orders of product p in variants p does not have.
RECURSIVE UnmatchedFrom(_, _, _, _)
UnmatchedFrom(prods, items, p, k) ==
  IF k > Len(items) THEN 0
  ELSE (IF items[k].productId = p /\ FindVariant(prods[p].variants, items[k].variantId) = 0
          THEN items[k].quantity ELSE 0)
       + UnmatchedFrom(prods, items, p, k + 1)

\* The quantity an item list orders of product p, whatever the variant.
RECURSIVE OrderedFrom(_, _, _)
OrderedFrom(items, p, k) ==
  IF k > Len(items) THEN 0
  ELSE (IF items[k].productId = p THEN items[k].quantity ELSE 0)
       + OrderedFrom(items, p, k + 1)

\* C22: a cancellation adds to every variant a product had the quantity
\* ordered of that variant and nothing else; the quantity ordered of variants
\* the product does not have goes to the default bucket of the product; so
\* the product's total stock rises by the quantity ordered of it.
C22_DefaultBucketRestock ==
  [][\A o \in OrderIds :
       (restocks'[o] > restocks[o] /\ orders[o] # NoOrder)
         => \A p \in ProductIds :
              LET before == products[p].variants
                  unmatched == UnmatchedFrom(products, orders[o].items, p, 1)
              IN /\ \A i \in 1..Len(before) :
                      before[i].id # "default" =>
                        products'[p].variants[i].stock =
                          before[i].stock + QtyFor(orders[o].items, p, before[i].id)
                 /\ unmatched > 0 =>
                      Stock(products', p, "default") =
                        Stock(products, p, "default") + unmatched
                 /\ TotalStock(products', p) =
                      TotalStock(products, p) + OrderedFrom(orders[o].items, p, 1)]_vars

\* C23: a step in which POST /:orderId/process or PUT /:orderId/tracking
\* answers leaves every variant's stock as it is, whoever called it with
\* whatever input, and so does every step that stores an order as Processing.
C23_ProcessingKeepsStock ==
  [][/\ resp'.op \in {"process", "tracking"} => products' = products
     /\ \A o \in OrderIds :
          (/\ orders[o] # NoOrder
           /\ orders'[o] # NoOrder
           /\ orders[o].orderStatus # "Processing"
           /\ orders'[o].orderStatus = "Processing")
            => products' = products]_vars

\* C23 witness: an order whose items were taken from stock at checkout has
\* been processed, and the stock is still what the checkout left.
C23_Witness ==
  /\ resp = [op |-> "process", status |-> 200]
  /\ \E o \in Created :
       /\ orders[o].orderStatus = "Processing"
       /\ decs[o] = 1
       /\ Stock(products, "p1", "v1") =
            Max(0, Stock(InitialProducts, "p1", "v1") - QtyFor(orders[o].items, "p1", "v1"))
       /\ Stock(products, "p1", "v1") < Stock(InitialProducts, "p1", "v1")

\* C24: no stored order whose deliveryMethod is pickup has a tracking number.
C24_TrackingOnlyForDelivery ==
  \A o \in Created :
    orders[o].deliveryMethod = "pickup" => orders[o].trackingNumber = None

\* C25: a POST /:orderId/process that succeeds sends the customer the
\* notification of its context, Ready for Pickup when isPickup and Shipped
\* otherwise, whatever isPickup and trackingNumber are.
C25_OneNotificationPerProcess ==
  [][\A c \in Callers, o \in OrderIds, t \in TrackingNumbers, isPickup \in BOOLEAN :
       (/\ orders[o] # NoOrder
        /\ Process(c, o, t, isPickup)
        /\ resp'.status = 200)
         => /\ orders'[o].orderStatus = "Processing"
            /\ isPickup => <<"Ready for Pickup", o>> \in sent'
            /\ ~isPickup => <<"Shipped", o>> \in sent']_vars

\* C26: a card checkout made while FRONTEND_URL is missing or no absolute
\* http(s) URL is answered 500, stores no order and creates no session.
C26_BadUrlCreatesNothing ==
  [][\A c \in Buyers, g \in GuestInfos, items \in Carts,
        d \in {"delivery", "pickup"}, out \in Outlets :
       StripeCheckout(c, g, items, d, out, "badUrl")
         => /\ resp' = [op |-> "stripe", status |-> 500]
            /\ orders' = orders
            /\ sessions' = sessions]_vars

\* C27: in a step that stores Paid on an order of a user, or that places a
\* pickup order of a user, the user's cart is deleted.
C27_CartClearedOnPaidOrPickup ==
  [][\A o \in OrderIds :
       /\ (/\ orders[o] # NoOrder
           /\ orders'[o] # NoOrder
           /\ orders[o].userId # None
           /\ orders[o].paymentStatus # "Paid"
           /\ orders'[o].paymentStatus = "Paid")
            => orders[o].userId \notin carts'
       /\ (/\ orders[o] = NoOrder
           /\ orders'[o] # NoOrder
           /\ orders'[o].paymentMethod = "Pickup"
           /\ orders'[o].userId # None)
            => orders'[o].userId \notin carts']_vars

\* C28: an order leaves the store only in a bulk delete that answers 200,
\* and only if its orderStatus is Processing in that step; a bulk delete
\* leaves every Pending or Cancelled order of its list as it is.
C28_OnlyProcessingPurged ==
  [][/\ \A o \in OrderIds :
          (orders[o] # NoOrder /\ orders'[o] = NoOrder)
            => /\ orders[o].orderStatus = "Processing"
               /\ resp' = [op |-> "bulk-delete", status |-> 200]
               /\ o \in purged'
     /\ \A c \in PurgeCallers, ids \in SUBSET OrderIds :
          BulkDelete(c, ids)
            => \A o \in ids :
                 (orders[o] # NoOrder /\ orders[o].orderStatus \in {"Pending", "Cancelled"})
                   => orders'[o] = orders[o]]_vars

\* C28 witness: a bulk delete has removed a processed order while an order
\* that is Pending or Cancelled is still in the store.
C28_Witness ==
  /\ resp = [op |-> "bulk-delete", status |-> 200]
  /\ purged # {}
  /\ \E o \in Created : orders[o].orderStatus \in {"Pending", "Cancelled"}

\* C29: when no handler is at work (no stock loop in flight, no sweep
\* candidate left), the items of every card order that is stored as Paid
\* were taken from stock exactly once.
C29_PaidDecrementedOnce ==
  (inflight = {} /\ queue = <<>>)
    => \A o \in Created :
         (orders[o].paymentMethod = "Stripe" /\ orders[o].paymentStatus = "Paid")
           => decs[o] = 1

\* C30: no order is restocked more than once, and a step on an order that
\* is stored as Cancelled changes none of its fields and restocks nothing.
C30_RestockedAtMostOnce ==
  [][\A o \in OrderIds :
       /\ restocks'[o] <= 1
       /\ (orders[o] # NoOrder /\ orders[o].orderStatus = "Cancelled")
            => (orders'[o] = orders[o] /\ restocks'[o] = restocks[o]
                /\ products' = products)]_vars

====
